---- MODULE Spec2Model ----
(***************************************************************************)
(* The useRecord hook of admin-bro (src/frontend/hooks/use-record.tsx):    *)
(* the record state (id, params, errors, populated), the field edit and    *)
(* whole-record replacement of handleChange, and the submission pipeline   *)
(* of handleSubmit with its upload progress, success and failure handlers. *)
(*                                                                         *)
(* A path string such as 'a.b' is the sequence of its segments <<"a","b">>;*)
(* joining with the '.' delimiter is concatenation of sequences.           *)
(***************************************************************************)
EXTENDS Integers, Sequences, FiniteSets, Bags, TLC

VARIABLES
    loading,     \* useState(false), line 108
    progress,    \* useState(0), line 109
    record,      \* useState<RecordJSON>, line 110
    requests,    \* the bag of requests handed to the transport and not yet settled
    calls,       \* the transport operations dispatched by the last handler
    notices,     \* the notices handed to onNotice by the last handler
    unhandled,   \* TRUE when the last handler left a rejected promise nobody handles
    last,        \* the operation or callback that ran last, with its arguments
    created      \* history: the id the last successful create assigned, with
                 \* whether another submission was in flight when it succeeded;
                 \* Undefined when the record has been replaced whole since

vars == <<loading, progress, record, requests, calls, notices, unhandled, last, created>>

----------------------------------------------------------------------------
(* JavaScript values *)

Undefined == [t |-> "undefined"]
Null      == [t |-> "null"]
Str(s)    == [t |-> "str", v |-> s]
Num(n)    == [t |-> "num", v |-> n]
Bool(b)   == [t |-> "bool", v |-> b]
Obj(o)    == [t |-> "obj", o |-> o]

\* ToBoolean: what `!value` (line 142) and `record.id ? :` (line 176) test
Truthy(v) ==
    CASE v.t = "undefined" -> FALSE
      [] v.t = "null"      -> FALSE
      [] v.t = "str"       -> v.v # ""
      [] v.t = "num"       -> v.v # 0
      [] v.t = "bool"      -> v.v
      [] OTHER             -> TRUE

EmptyMap == [k \in {} |-> Undefined]

\* { ...f, ...g }: the entries of f with those of g overlaid
Spread(f, g) ==
    [k \in (DOMAIN f) \cup (DOMAIN g) |-> IF k \in DOMAIN g THEN g[k] ELSE f[k]]

\* delete o[k]
Delete(o, k) == [j \in (DOMAIN o) \ {k} |-> o[j]]

\* o[k] = v
Assign(o, k, v) == [j \in (DOMAIN o) \cup {k} |-> IF j = k THEN v ELSE o[j]]

IsPrefix(p, q) == Len(p) <= Len(q) /\ SubSeq(q, 1, Len(p)) = p

IsProperPrefix(p, q) == Len(p) < Len(q) /\ IsPrefix(p, q)

----------------------------------------------------------------------------
(* flat.unflatten and flat.flatten as handleChange calls them (no options) *)

\* The keys unflatten writes: a key is skipped when a shorter key holds a
\* value on its way (unflatten does not overwrite a non-object value).
LiveKeys(flatMap) ==
    {k \in DOMAIN flatMap : \A q \in DOMAIN flatMap : ~IsProperPrefix(q, k)}

RECURSIVE Nest(_)
\* The nested object of a mapping whose keys are prefix-free paths. The keys
\* of a nested object are one-segment sequences.
Nest(m) ==
    [s \in {<<Head(k)>> : k \in DOMAIN m} |->
        IF s \in DOMAIN m
        THEN m[s]
        ELSE Obj(Nest([r \in {Tail(k) : k \in {j \in DOMAIN m : Head(j) = s[1]}}
                          |-> m[s \o r]]))]

unflatten(flatMap) ==
    Nest([k \in LiveKeys(flatMap) |-> flatMap[k]])

RECURSIVE step(_, _)
\* flatten's step(object, prev): the <<key, value>> pairs written to output
step(object, prev) ==
    UNION {LET value  == object[key]
               newKey == prev \o key
           IN  IF value.t = "obj" /\ DOMAIN value.o # {}
               THEN step(value.o, newKey)
               ELSE {<<newKey, value>>}
           : key \in DOMAIN object}

\* The output of step over the keys `keys` of object, as a mapping
StepOver(object, keys) ==
    LET pairs == step([k \in keys |-> object[k]], <<>>)
    IN  [p \in {pr[1] : pr \in pairs} |-> (CHOOSE pr \in pairs : pr[1] = p)[2]]

\* flatten walks Object.keys in insertion order and a later write to the
\* same output key wins.  The keys made by unflatten have one segment and
\* never collide; a key with a delimiter in it is the one handleChange
\* assigned after them (line 149), so its writes come last.
flatten(object) ==
    LET made  == {k \in DOMAIN object : Len(k) = 1}
        added == (DOMAIN object) \ made
    IN  Spread(StepOver(object, made), StepOver(object, added))

\* The value found in a nested object by walking the segments of path
RECURSIVE Get(_, _)
Get(object, path) ==
    IF <<Head(path)>> \notin DOMAIN object THEN Undefined
    ELSE LET value == object[<<Head(path)>>]
         IN  IF Len(path) = 1 THEN value
             ELSE IF value.t = "obj" THEN Get(value.o, Tail(path))
             ELSE Undefined

----------------------------------------------------------------------------
(* The record and the values the model draws its inputs from *)

resourceId == "users"

PathA   == <<"a">>
PathAB  == <<"a", "b">>
PathABD == <<"a", "b", "d">>
PathC   == <<"c">>

\* String(propertyOrRecord) of an object used as a property key (line 138)
ObjectKey == <<"[object Object]">>

SubRecord(id) == [t |-> "record", id |-> id]

RecordJSON(id, params, errors, populated) ==
    [id |-> id, params |-> params, errors |-> errors, populated |-> populated]

Only(k, v) == [j \in {k} |-> v]

\* The first argument of handleChange: a path string or a record
PathArg(p)   == [t |-> "string", path |-> p]
RecordArg(r) == [t |-> "record", record |-> r]

\* A record the server has saved, with a resolved sub-record
SavedRecord ==
    RecordJSON(Str("7"), Only(PathAB, Str("2")), EmptyMap, Only(PathAB, SubRecord("Q")))

\* A record a component hands back whole to handleChange
DraftRecord ==
    RecordJSON(Undefined, Only(PathAB, Str("x")), Only(PathAB, Str("invalid")), EmptyMap)

\* An object without a params field passed where a record is expected
BareObject == RecordJSON(Str("9"), Undefined, EmptyMap, EmptyMap)

\* Initial data that carries no errors field
PartialRecord == RecordJSON(Str("7"), Only(PathAB, Str("2")), Undefined, EmptyMap)

\* The initialRecord the owning component passes (undefined for a new form)
InitialRecords == {Undefined, SavedRecord}

\* The calls of handleChange made while submissions run: a field set with a
\* resolved sub-record, a record handed back whole
FormChanges ==
    { <<PathArg(PathAB), Str("x"), SubRecord("Q")>>,
      <<RecordArg(DraftRecord), Undefined, Undefined>> }

\* The records a form may be mounted with when its fields are edited: the
\* well-formed params over the paths a, a.b and a.b.d, with the sub-records
\* resolved for fields that are there
EditParams ==
    { EmptyMap,
      Only(PathA, Str("1")),
      Only(PathAB, Str("2")),
      Only(PathABD, Str("2")),
      [k \in {PathAB, <<"a", "c">>} |-> Str("3")] }

EditPopulated == {EmptyMap, Only(PathA, SubRecord("P")), Only(PathAB, SubRecord("P"))}

\* The paths field components edit
EditPaths == {PathA, PathAB}

\* The values they pass: the falsy ones, a string, an object
FalsyValues  == {Undefined, Null, Num(0), Bool(FALSE), Str("")}
TruthyValues == {Str("x"), Obj(Only(PathC, Str("y")))}
EditValues   == FalsyValues \cup TruthyValues

\* The resolved sub-record a reference component passes (or none)
IncomingRecords == {Undefined, SubRecord("Q")}

\* The customParams of submit
CustomParams == {EmptyMap, Only(PathAB, Str("x"))}

\* How the caller uses the promise submit returns: not at all, or with a
\* continuation as in the documented submit().then(...) (lines 65-69)
Usages == {"ignored", "then"}

\* The bytes of an upload, and the loaded counts its progress events report:
\* the last event alone, or every third of the upload
UploadTotal == 3
LoadedSteps == {UploadTotal}
UploadSteps == 1..UploadTotal

\* The most submissions in flight at once
MaxInFlight == 2

ServerNotice == [message |-> "Successfully saved", type |-> "success"]

ErrorNotice ==
    [message |-> "There was an error updating record, Check out console to see more information.",
     type |-> "error"]

----------------------------------------------------------------------------
(* useState's initial record, lines 110-115, and the effect of lines 119-123 *)

\* initialRecord?.params ?? {} and its like
OrEmpty(initialRecord, field) ==
    IF initialRecord = Undefined \/ initialRecord[field] \in {Undefined, Null}
    THEN EmptyMap
    ELSE initialRecord[field]

initialState(initialRecord) ==
    RecordJSON(IF initialRecord = Undefined THEN Undefined ELSE initialRecord.id,
               OrEmpty(initialRecord, "params"),
               OrEmpty(initialRecord, "errors"),
               OrEmpty(initialRecord, "populated"))

\* The record after the effect has run for initialRecord
afterEffect(current, initialRecord) ==
    IF initialRecord # Undefined THEN initialRecord ELSE current

----------------------------------------------------------------------------
(* handleChange, lines 125-162 *)

\* isReplacement without the test of value
isReplacementOfAnyValue(propertyOrRecord, value) ==
    /\ propertyOrRecord.t # "string"
    /\ propertyOrRecord.record.params # Undefined

\* The condition of lines 130-134
isReplacement(propertyOrRecord, value) ==
    /\ value = Undefined
    /\ propertyOrRecord.t # "string"
    /\ propertyOrRecord.record.params # Undefined

\* `propertyOrRecord as string` used as a property key, line 138
keyOf(propertyOrRecord) ==
    IF propertyOrRecord.t = "string" THEN propertyOrRecord.path ELSE ObjectKey

\* fieldEdit without the `...prev` of line 156
fieldEditWithoutRest(prev, key, value, incomingRecord) ==
    RecordJSON(Undefined,
               flatten(IF Truthy(value) THEN Assign(unflatten(prev.params), key, value)
                                        ELSE Delete(unflatten(prev.params), key)),
               EmptyMap,
               IF ~Truthy(value) THEN Delete(prev.populated, key)
               ELSE IF Truthy(incomingRecord)
                    THEN Assign(prev.populated, key, incomingRecord)
                    ELSE prev.populated)

\* The updater of lines 137-160
fieldEdit(prev, key, value, incomingRecord) ==
    LET inflated == unflatten(prev.params)
        cleared  == ~Truthy(value)
        inflated2 == IF cleared THEN Delete(inflated, key)
                     ELSE Assign(inflated, key, value)
        populatedCopy ==
            IF cleared
            THEN Delete(prev.populated, key)
            ELSE IF Truthy(incomingRecord)
                 THEN Assign(prev.populated, key, incomingRecord)
                 ELSE prev.populated
        populatedModified ==
            IF cleared THEN key \in DOMAIN prev.populated
            ELSE Truthy(incomingRecord)
    IN  [prev EXCEPT !.params = flatten(inflated2),
                     !.populated = IF populatedModified THEN populatedCopy
                                   ELSE prev.populated]

handleChange(prev, propertyOrRecord, value, incomingRecord) ==
    IF isReplacement(propertyOrRecord, value)
    THEN propertyOrRecord.record
    ELSE fieldEdit(prev, keyOf(propertyOrRecord), value, incomingRecord)

----------------------------------------------------------------------------
(* handleSubmit, lines 164-204 *)

\* recordToFormData(record): one form field for each entry of params
recordToFormData(rec) == rec.params

\* withCustomParams of a payload built from customParams alone
withCustomParamsOnly(formData, customParams) == customParams

\* formData.set(key, value) for every entry of customParams, line 169
withCustomParams(formData, customParams) == Spread(formData, customParams)

\* percent with Math.floor in the place of Math.round
percentTruncated(loaded, total) == (loaded * 100) \div total

\* Math.round((e.loaded * 100) / e.total), line 172
percent(loaded, total) == (2 * (loaded * 100) + total) \div (2 * total)

\* operation without the test of record.id
operationAlwaysNew(rec, data) ==
    [actionName |-> "new", resourceId |-> resourceId,
     recordId |-> Undefined, data |-> data]

\* The transport operation of lines 176-185
operation(rec, data) ==
    IF Truthy(rec.id)
    THEN [actionName |-> "edit", resourceId |-> resourceId,
          recordId |-> rec.id, data |-> data]
    ELSE [actionName |-> "new", resourceId |-> resourceId,
          recordId |-> Undefined, data |-> data]

\* mergeRecordResponse(prev, response.data), line 191
mergeRecordResponse(prev, data) ==
    RecordJSON(IF data.record.id # Undefined THEN data.record.id ELSE prev.id,
               data.record.params,
               data.record.errors,
               Spread(prev.populated, data.record.populated))

\* thenRecord taking the response's record in the place of the merge
thenRecordReplaced(prev, data) ==
    RecordJSON(data.record.id, data.record.params, data.record.errors,
               data.record.populated)

\* thenRecord of a handler that keeps the params the form has
thenRecordKeepsParams(prev, data) ==
    [mergeRecordResponse(prev, data) EXCEPT !.params = prev.params]

\* thenRecord of a handler that takes populated from the server alone
thenRecordServerPopulated(prev, data) ==
    [mergeRecordResponse(prev, data) EXCEPT !.populated = data.record.populated]

\* The updater of line 191
thenRecord(prev, data) == mergeRecordResponse(prev, data)

\* The notices the success handler forwards, lines 188-190
thenNotices(data) ==
    IF data.notice # Undefined THEN <<data.notice>> ELSE <<>>

\* catchNotices of a handler that forgets onNotice
catchNoNotice == <<>>

\* The notices the failure handler emits, lines 195-199
catchNotices == <<ErrorNotice>>

----------------------------------------------------------------------------
(* The transport: what a request in flight may be answered with *)

\* The id of the record in a response: none (a create refused by validation,
\* a response that does not echo it), the id addressed by an edit, a fresh id
\* for a create
ResponseIds(op) ==
    {Undefined} \cup (IF op.actionName = "edit" THEN {op.recordId}
                                                 ELSE {Str("7"), Str("8")})

\* response.data: the submitted fields echoed with a notice, or the fields as
\* the server normalised them, with a validation error and a sub-record it
\* resolved, and no notice
Responses(op) ==
    { [notice |-> shape[1],
       record |-> RecordJSON(id, shape[2], shape[3], shape[4])] :
        id \in ResponseIds(op),
        shape \in { <<ServerNotice, op.data, EmptyMap, EmptyMap>>,
                    <<Undefined, Only(PathAB, Str("s")), Only(PathAB, Str("required")),
                      Only(PathAB, SubRecord("S"))>> } }

\* The one response of a server that saves what it is sent
Acknowledged(op) ==
    { [notice |-> ServerNotice,
       record |-> RecordJSON(IF op.actionName = "edit" THEN op.recordId ELSE Str("7"),
                             op.data, EmptyMap, EmptyMap)] }

\* What a server of the kind `server` may answer the operation op with
Answers(server, op) ==
    IF server = "saving" THEN Acknowledged(op) ELSE Responses(op)

InFlight == BagToSet(requests)

----------------------------------------------------------------------------
(* The state machine *)

\* The hook mounted with one of initialRecords: lines 108-123
InitWith(initialRecords) ==
    /\ loading = FALSE
    /\ progress = 0
    /\ \E initialRecord \in initialRecords :
          record = afterEffect(initialState(initialRecord), initialRecord)
    /\ last = [op |-> "useRecord"]
    /\ requests = EmptyBag
    /\ calls = <<>>
    /\ notices = <<>>
    /\ unhandled = FALSE
    /\ created = Undefined

Init == InitWith(InitialRecords)

\* The owning component passes another initialRecord: the effect of 119-123
InitialRecordEffect(initialRecord) ==
    /\ initialRecord # Undefined
    /\ record' = afterEffect(record, initialRecord)
    /\ last' = [op |-> "useEffect"]
    /\ created' = Undefined
    /\ calls' = <<>>
    /\ notices' = <<>>
    /\ unhandled' = FALSE
    /\ UNCHANGED <<loading, progress, requests>>

HandleChange(propertyOrRecord, value, incomingRecord) ==
    /\ record' = handleChange(record, propertyOrRecord, value, incomingRecord)
    /\ last' = [op |-> "handleChange", propertyOrRecord |-> propertyOrRecord,
                value |-> value, incomingRecord |-> incomingRecord]
    /\ created' = IF isReplacement(propertyOrRecord, value) THEN Undefined ELSE created
    /\ calls' = <<>>
    /\ notices' = <<>>
    /\ unhandled' = FALSE
    /\ UNCHANGED <<loading, progress, requests>>

\* Submit without the setLoading(true) of line 167
SubmitWithoutLoading(customParams) ==
    /\ BagCardinality(requests) < MaxInFlight
    /\ LET op == operation(record,
                           withCustomParams(recordToFormData(record), customParams))
       IN  /\ calls' = <<op>>
           /\ requests' = requests (+) SetToBag({[op |-> op, loaded |-> 0]})
    /\ last' = [op |-> "submit"]
    /\ notices' = <<>>
    /\ unhandled' = FALSE
    /\ UNCHANGED <<loading, progress, record, created>>

\* handleSubmit up to `return promise`
Submit(customParams) ==
    /\ BagCardinality(requests) < MaxInFlight
    /\ LET op == operation(record,
                           withCustomParams(recordToFormData(record), customParams))
       IN  /\ calls' = <<op>>
           /\ requests' = requests (+) SetToBag({[op |-> op, loaded |-> 0]})
    /\ loading' = TRUE
    /\ last' = [op |-> "submit"]
    /\ notices' = <<>>
    /\ unhandled' = FALSE
    /\ UNCHANGED <<progress, record, created>>

\* One event handler calls handleChange and then submit: the updater of
\* handleChange is queued, and handleSubmit is still the callback of the last
\* render, which closes over the record of that render (line 204)
EditThenSubmit(propertyOrRecord, value, incomingRecord) ==
    /\ BagCardinality(requests) < MaxInFlight
    /\ record' = handleChange(record, propertyOrRecord, value, incomingRecord)
    /\ LET op == operation(record,
                           withCustomParams(recordToFormData(record), EmptyMap))
       IN  /\ calls' = <<op>>
           /\ requests' = requests (+) SetToBag({[op |-> op, loaded |-> 0]})
    /\ loading' = TRUE
    /\ last' = [op |-> "handleChange;submit", propertyOrRecord |-> propertyOrRecord,
                value |-> value, incomingRecord |-> incomingRecord]
    /\ created' = IF isReplacement(propertyOrRecord, value) THEN Undefined ELSE created
    /\ notices' = <<>>
    /\ unhandled' = FALSE
    /\ UNCHANGED progress

\* onUploadProgress of the request req, line 172
UploadProgress(req, loaded) ==
    /\ req \in InFlight
    /\ loaded >= req.loaded
    /\ progress' = percent(loaded, UploadTotal)
    /\ requests' = (requests (-) SetToBag({req}))
                      (+) SetToBag({[req EXCEPT !.loaded = loaded]})
    /\ last' = [op |-> "onUploadProgress", loaded |-> loaded, total |-> UploadTotal]
    /\ calls' = <<>>
    /\ notices' = <<>>
    /\ unhandled' = FALSE
    /\ UNCHANGED <<loading, record, created>>

\* The promise of the request req resolves with response.data = data:
\* lines 187-193
Succeed(req, data) ==
    /\ req \in InFlight
    /\ notices' = thenNotices(data)
    /\ record' = thenRecord(record, data)
    /\ progress' = 0
    /\ loading' = FALSE
    /\ requests' = requests (-) SetToBag({req})
    /\ last' = [op |-> "then", data |-> data]
    /\ created' = IF req.op.actionName = "new" /\ data.record.id # Undefined
                  THEN [id |-> data.record.id, overlapped |-> requests' # EmptyBag]
                  ELSE created
    /\ calls' = <<>>
    /\ unhandled' = FALSE

\* Fail with a handler that also clears the errors of the record
FailClearsErrors(req, usage) ==
    /\ req \in InFlight
    /\ notices' = catchNotices
    /\ progress' = 0
    /\ loading' = FALSE
    /\ requests' = requests (-) SetToBag({req})
    /\ unhandled' = (usage = "then")
    /\ last' = [op |-> "catch"]
    /\ calls' = <<>>
    /\ record' = [record EXCEPT !.errors = EmptyMap]
    /\ UNCHANGED created

\* Fail without the setLoading(false) of line 201
FailKeepsLoading(req, usage) ==
    /\ req \in InFlight
    /\ notices' = catchNotices
    /\ progress' = 0
    /\ requests' = requests (-) SetToBag({req})
    /\ unhandled' = (usage = "then")
    /\ last' = [op |-> "catch"]
    /\ calls' = <<>>
    /\ UNCHANGED <<loading, record, created>>

\* The promise of the request req rejects: lines 194-202.  usage is what the
\* caller did with the promise submit returned.  That promise is the
\* transport's own (line 203), so a continuation chained on it rejects too,
\* and nothing handles that rejection.
Fail(req, usage) ==
    /\ req \in InFlight
    /\ notices' = catchNotices
    /\ progress' = 0
    /\ loading' = FALSE
    /\ requests' = requests (-) SetToBag({req})
    /\ unhandled' = (usage = "then")
    /\ last' = [op |-> "catch"]
    /\ calls' = <<>>
    /\ UNCHANGED <<record, created>>

\* A request in flight is answered by the server, or rejected
Settle(server) ==
    \/ \E req \in InFlight : \E data \in Answers(server, req.op) : Succeed(req, data)
    \/ \E req \in InFlight, usage \in Usages : Fail(req, usage)

\* The steps of the hook when the form makes the calls `changes` of
\* handleChange, submits with one of `customs`, and the transport reports the
\* loaded counts `steps` and a server of the kind `server` answers
Step(changes, customs, steps, server) ==
    \/ \E initialRecord \in InitialRecords : InitialRecordEffect(initialRecord)
    \/ \E c \in changes : HandleChange(c[1], c[2], c[3])
    \/ \E customParams \in customs : Submit(customParams)
    \/ \E req \in InFlight, loaded \in steps : UploadProgress(req, loaded)
    \/ Settle(server)

Next == Step(FormChanges, {EmptyMap}, LoadedSteps, "validating")

Spec == Init /\ [][Next]_vars

\* The uploads report their progress step by step to a server that saves what
\* it is sent
UploadNext ==
    Step({<<PathArg(PathAB), Str("x"), SubRecord("Q")>>}, CustomParams, UploadSteps,
         "saving")

UploadSpec == Init /\ [][UploadNext]_vars

\* The same, with the transport settling every request it was handed
LiveSpec == UploadSpec /\ WF_vars(Settle("saving"))

\* The hook is mounted with, or handed, data that may lack a field
MountRecords == InitialRecords \cup {PartialRecord}

MountInit == InitWith(MountRecords)

MountNext ==
    \/ \E initialRecord \in MountRecords : InitialRecordEffect(initialRecord)
    \/ \E c \in FormChanges \cup {<<RecordArg(PartialRecord), Undefined, Undefined>>} :
          HandleChange(c[1], c[2], c[3])
    \/ Submit(EmptyMap)
    \/ Settle("saving")

MountSpec == MountInit /\ [][MountNext]_vars

\* The form also edits and submits within one event handler
TickNext ==
    \/ Step(FormChanges, {EmptyMap}, LoadedSteps, "saving")
    \/ \E c \in FormChanges : EditThenSubmit(c[1], c[2], c[3])

TickSpec == Init /\ [][TickNext]_vars

\* The fields of a form are edited, nothing is submitted
ChangeArgs ==
    {PathArg(p) : p \in EditPaths} \cup {RecordArg(DraftRecord), RecordArg(BareObject)}

EditInit ==
    InitWith({RecordJSON(Str("7"), pq[1], EmptyMap, pq[2]) :
                pq \in {x \in EditParams \X EditPopulated :
                          \A k \in DOMAIN x[2] : Get(unflatten(x[1]), k) # Undefined}})

EditNext ==
    \E arg \in ChangeArgs, value \in EditValues, incomingRecord \in IncomingRecords :
        HandleChange(arg, value, incomingRecord)

EditSpec == EditInit /\ [][EditNext]_vars

----------------------------------------------------------------------------
(* The submission pipeline *)

\* C1: a call of submit dispatches exactly one transport operation, addressed
\* to the hook's resource: an edit carrying record.id when the record has a
\* truthy id, a create when it has none.
C1_SubmitDispatchesOne ==
    last.op = "submit" =>
        /\ Len(calls) = 1
        /\ calls[1].resourceId = resourceId
        /\ calls[1].actionName \in {"edit", "new"}
        /\ Truthy(record.id) =>
              (calls[1].actionName = "edit" /\ calls[1].recordId = record.id)
        /\ ~Truthy(record.id) => calls[1].actionName = "new"

\* An edit of the saved record was dispatched
C1_EditDispatched ==
    /\ last.op = "submit"
    /\ record.id = Str("7")
    /\ calls = <<operation(record, record.params)>>
    /\ calls[1].actionName = "edit"

\* C2: when the transport rejects, the failure handler emits exactly one
\* notice, of type error, puts loading to false and progress to 0, and leaves
\* the record as it was.
C2_FailureHandled ==
    [][last'.op = "catch" =>
          /\ Len(notices') = 1
          /\ notices'[1].type = "error"
          /\ loading' = FALSE
          /\ progress' = 0
          /\ record' = record]_vars

\* A submission of the edited saved record was rejected
C2_RejectionHandled ==
    /\ last.op = "catch"
    /\ Len(notices) = 1
    /\ record.id = Str("7")
    /\ record.params = Only(PathAB, Str("x"))
    /\ ~loading

\* What section 4.3 says of the record after a successful response data
MergedFrom(prev, data, next) ==
    /\ next.id = IF data.record.id # Undefined THEN data.record.id ELSE prev.id
    /\ next.params = data.record.params
    /\ next.errors = data.record.errors
    /\ DOMAIN next.populated = DOMAIN prev.populated \cup DOMAIN data.record.populated
    /\ \A k \in DOMAIN next.populated :
          next.populated[k] = IF k \in DOMAIN data.record.populated
                              THEN data.record.populated[k]
                              ELSE prev.populated[k]

\* C3: on success the record becomes the merge of the current record and the
\* response's record: id, params and errors from the server, the populated
\* entries of both with the server's winning, and the id kept when the
\* server sends none.
C3_SuccessMerges ==
    [][last'.op = "then" => MergedFrom(record, last'.data, record')]_vars

\* A success whose response resolved no sub-record kept the one the form had
C3_PopulatedKept ==
    /\ last.op = "then"
    /\ notices = <<ServerNotice>>
    /\ record.id = Str("7")
    /\ record.params = Only(PathAB, Str("x"))
    /\ record.populated = Only(PathAB, SubRecord("Q"))

\* The step is the success of a create whose response carries an id
CreateSucceeds == created' # Undefined /\ created' # created

\* The step is a call of submit that dispatches an edit addressed by id
SubmitEdits(id) ==
    last'.op = "submit" =>
        (calls'[1].actionName = "edit" /\ calls'[1].recordId = id)

\* C4 as stated: once a create has succeeded with an id, the record has that
\* id with loading false and progress 0, and until the record is replaced
\* every later submit dispatches an edit addressed by that id.
C4_CreateThenUpdate ==
    [][/\ CreateSucceeds =>
             (record'.id = created'.id /\ ~loading' /\ progress' = 0)
       /\ created' # Undefined => SubmitEdits(created'.id)]_vars

\* C4 for what the code keeps: once a create has succeeded with an id, the
\* record has that id with loading false and progress 0; and when no other
\* submission was in flight at that success, the record keeps the id and
\* every later submit dispatches an edit addressed by it, until the record
\* is replaced.
C4_CreateAloneThenUpdate ==
    [][/\ CreateSucceeds =>
             (record'.id = created'.id /\ ~loading' /\ progress' = 0)
       /\ (created' # Undefined /\ ~created'.overlapped) =>
             (record'.id = created'.id /\ SubmitEdits(created'.id))]_vars

\* After a create that ran alone, the form submits again
C4_SubmitAfterCreate ==
    /\ created # Undefined
    /\ ~created.overlapped
    /\ created.id = Str("8")
    /\ last.op = "submit"
    /\ calls[1].recordId = Str("8")

\* C5: every submission ends with loading false and progress 0, whether it
\* succeeded or failed: the hook is idle whenever nothing is in flight, and
\* after every call of submit it comes to be idle.
C5_ReturnsToIdle ==
    /\ [](requests = EmptyBag => (~loading /\ progress = 0))
    /\ (last.op = "submit") ~> (~loading /\ progress = 0)

\* The last of the submissions in flight has failed
C5_IdleAfterFailure ==
    /\ last.op = "catch"
    /\ requests = EmptyBag
    /\ ~loading
    /\ progress = 0

\* C6 as stated: loading is true exactly while a submission is in flight.
C6_LoadingWhileInFlight ==
    requests # EmptyBag => loading

\* C6 for what the code keeps: a call of submit puts loading to true, and
\* only the handling of the success or the failure of a submission puts it
\* back to false (of any submission: the first to settle of two in flight).
C6_LoadingUntilSettled ==
    [][/\ last'.op = "submit" => loading'
       /\ (loading /\ ~loading') => last'.op \in {"then", "catch"}]_vars

\* A field is edited while the one submission is in flight
C6_EditWhileLoading ==
    /\ last.op = "handleChange"
    /\ BagCardinality(requests) = 1
    /\ loading

\* n is an integer nearest to 100 * loaded / total
Nearest(n, loaded, total) ==
    /\ 2 * (n * total - 100 * loaded) <= total
    /\ 2 * (100 * loaded - n * total) <= total

\* The step is a progress event, and its percentage is in range and rounded
ProgressReported ==
    last'.op = "onUploadProgress" =>
        /\ progress' \in 0..100
        /\ Nearest(progress', last'.loaded, last'.total)

\* C7 as stated: during a submission progress is the nearest integer to
\* 100 * loaded / total of the latest event, between 0 and 100, it does not
\* decrease from one event to the next, and it is 0 again at the end.
C7_ProgressMonotone ==
    [][/\ ProgressReported
       /\ last'.op = "onUploadProgress" => progress' >= progress
       /\ last'.op \in {"then", "catch"} => progress' = 0]_vars

\* C7 for a submission that is alone in flight: the percentage of the latest
\* event, in range, rounded and not decreasing; with any submissions the
\* percentage is in range and rounded, and 0 again when one of them ends.
C7_ProgressMonotoneAlone ==
    [][/\ ProgressReported
       /\ (last'.op = "onUploadProgress" /\ BagCardinality(requests) = 1) =>
             progress' >= progress
       /\ last'.op \in {"then", "catch"} => progress' = 0]_vars

\* Two thirds of the one upload in flight are reported as 67
C7_TwoThirdsLoaded ==
    /\ last.op = "onUploadProgress"
    /\ last.loaded = 2
    /\ last.total = 3
    /\ progress = 67
    /\ BagCardinality(requests) = 1

\* C8: when the transport rejects, no rejection is left for the caller of
\* submit to handle, also when the caller chains a continuation on the
\* promise submit returned.
C8_NoRejectionEscapes ==
    last.op = "catch" => ~unhandled

----------------------------------------------------------------------------
(* The edits of one field *)

\* The last call was handleChange(path, value, incomingRecord) with a path
FieldEdited ==
    /\ last.op = "handleChange"
    /\ last.propertyOrRecord.t = "string"

\* params, read at path, hold value: as the entry of the flat mapping, or as
\* the value at the path of its nested form
HoldsAt(params, path, value) ==
    \/ path \in DOMAIN params /\ params[path] = value
    \/ Get(unflatten(params), path) = value

\* C9: after the edit of a path with a truthy value, params read at the path
\* hold that value, and populated holds the incoming record at the path when
\* one was passed.
C9_EditSetsValue ==
    (FieldEdited /\ Truthy(last.value)) =>
        /\ HoldsAt(record.params, last.propertyOrRecord.path, last.value)
        /\ last.incomingRecord # Undefined =>
              /\ last.propertyOrRecord.path \in DOMAIN record.populated
              /\ record.populated[last.propertyOrRecord.path] = last.incomingRecord

\* C10: after the edit of a path with a falsy value, params have no entry at
\* the path or under it, and populated has no entry at the path.
C10_FalsyRemoves ==
    (FieldEdited /\ ~Truthy(last.value)) =>
        /\ \A k \in DOMAIN record.params : ~IsPrefix(last.propertyOrRecord.path, k)
        /\ last.propertyOrRecord.path \notin DOMAIN record.populated

----------------------------------------------------------------------------
(* Replacement or edit *)

\* C11: handleChange replaces the record with the supplied one, verbatim,
\* exactly when no value is given, the first argument is not a string and it
\* carries params; every other call, a string with an undefined value
\* included, is a field edit of the current record.
C11_ReplacementOrEdit ==
    [][last'.op = "handleChange" =>
          IF /\ last'.value = Undefined
             /\ last'.propertyOrRecord.t = "record"
             /\ last'.propertyOrRecord.record.params # Undefined
          THEN record' = last'.propertyOrRecord.record
          ELSE /\ record' = fieldEdit(record, keyOf(last'.propertyOrRecord),
                                      last'.value, last'.incomingRecord)
               /\ record'.id = record.id
               /\ record'.errors = record.errors]_vars

\* A record was handed back whole after a field had been edited
C11_RecordReplaced ==
    /\ last.op = "handleChange"
    /\ last.propertyOrRecord = RecordArg(DraftRecord)
    /\ last.value = Undefined
    /\ record = DraftRecord

----------------------------------------------------------------------------
(* The shape of the record *)

\* C12: in every reachable state params, errors and populated are each a
\* defined mapping, never undefined.
C12_FieldsDefined ==
    /\ record.params # Undefined
    /\ record.errors # Undefined
    /\ record.populated # Undefined

----------------------------------------------------------------------------
(* Progress at the start of a submission *)

\* C13: in the state right after a call of submit progress is 0, whatever it
\* was before the call.
C13_SubmitResetsProgress ==
    last.op = "submit" => progress = 0

----------------------------------------------------------------------------
(* Populated entries and the fields they belong to *)

\* C14: in every reachable state every key of populated is a field present
\* in the unflattened form of params.
C14_PopulatedLive ==
    \A k \in DOMAIN record.populated : Get(unflatten(record.params), k) # Undefined

----------------------------------------------------------------------------
(* Edit, then clear *)

\* C15: for a record in which a.b is neither populated nor a field of params,
\* the edit ('a.b', 'x') followed by the edit ('a.b', undefined) gives a
\* record with the params and the populated it had.  The step is the first
\* edit; the second is applied to the record it leaves.
C15_EditThenClear ==
    [][(/\ last'.op = "handleChange"
        /\ last'.propertyOrRecord = PathArg(PathAB)
        /\ last'.value = Str("x")
        /\ last'.incomingRecord = Undefined
        /\ PathAB \notin DOMAIN record.populated
        /\ \A k \in DOMAIN record.params : ~IsPrefix(PathAB, k))
       => LET cleared == handleChange(record', PathArg(PathAB), Undefined, Undefined)
          IN  /\ cleared.params = record.params
              /\ cleared.populated = record.populated]_vars

----------------------------------------------------------------------------
(* The round trip of params *)

\* C16: after any sequence of field edits of a well-formed record, params
\* are a fixed point of the round trip: flatten(unflatten(params)) = params.
C16_RoundTrip ==
    flatten(unflatten(record.params)) = record.params

----------------------------------------------------------------------------
(* Where errors come from *)

\* The step replaces the record whole: handleChange with a record, or a new
\* initialRecord from the owning component
RecordReplaced ==
    \/ last'.op = "useEffect"
    \/ /\ last'.op = "handleChange"
       /\ isReplacement(last'.propertyOrRecord, last'.value)

\* C17: field edits, the dispatch of a submission, progress events and
\* failed submissions leave errors unchanged; errors change only when a
\* successful response is merged, to the server's errors, or when the record
\* is replaced whole.
C17_ErrorsFromServer ==
    [][/\ record'.errors # record.errors => (last'.op = "then" \/ RecordReplaced)
       /\ last'.op = "then" => record'.errors = last'.data.record.errors
       /\ (last'.op \in {"handleChange", "submit", "onUploadProgress", "catch"}
             /\ ~RecordReplaced) => record'.errors = record.errors]_vars

\* A submission failed on a record that holds the errors of an earlier response
C17_ErrorsKeptOnFailure ==
    /\ last.op = "catch"
    /\ record.errors = Only(PathAB, Str("required"))

----------------------------------------------------------------------------
(* Overlapping submissions *)

\* C18: a submit called while another submission is in flight dispatches its
\* own request beside it, every success settles one request and leaves the
\* others in flight, and after a success params and errors are those of the
\* response handled last, in whatever order the requests were dispatched.
C18_LastResponseWins ==
    [][/\ last'.op = "submit" =>
             /\ Len(calls') = 1
             /\ requests' = requests (+) SetToBag({[op |-> calls'[1], loaded |-> 0]})
       /\ last'.op = "then" =>
             /\ BagCardinality(requests') = BagCardinality(requests) - 1
             /\ requests' \sqsubseteq requests
             /\ record'.params = last'.data.record.params
             /\ record'.errors = last'.data.record.errors]_vars

\* A create and an edit were in flight together and both have succeeded, the
\* edit last
C18_BothSucceeded ==
    /\ last.op = "then"
    /\ requests = EmptyBag
    /\ created # Undefined
    /\ created.overlapped
    /\ created.id = Str("8")
    /\ record.id = Str("7")
    /\ record.params = last.data.record.params

----------------------------------------------------------------------------
(* The payload of a submission *)

\* The step calls submit
SubmitCalled == last'.op \in {"submit", "handleChange;submit"}

\* No edit changes a request already sent
SentUntouched == last'.op = "handleChange" => requests' = requests

\* C19 as stated: the payload is the record when submit is called, with
\* every edit applied before the call and none applied after it; an edit
\* made while the request is in flight changes the record, not the request.
C19_PayloadIsRecordAtCall ==
    [][/\ SubmitCalled => calls'[1].data = recordToFormData(record')
       /\ SentUntouched]_vars

\* C19 for what the code keeps: the payload is the record of the render
\* whose submit was called, so it has every edit rendered before the call,
\* not one made earlier in the same event handler, and none made after; an
\* edit made while the request is in flight changes the record, not the
\* request.
C19_PayloadIsRenderedRecord ==
    [][/\ SubmitCalled => calls'[1].data = recordToFormData(record)
       /\ SentUntouched]_vars

\* A field was edited while a request sent before the edit is in flight
C19_EditedInFlight ==
    /\ last.op = "handleChange"
    /\ last.propertyOrRecord = PathArg(PathAB)
    /\ record.params = Only(PathAB, Str("x"))
    /\ \E req \in InFlight : req.op.data = EmptyMap

----------------------------------------------------------------------------
(* An edit made while a submission is in flight *)

\* C20: the success handler merges the response into the record as it is
\* when the response is handled: params are the server's, so an edit of params
\* made while the request was in flight is discarded, and every populated
\* entry the record has then, one added by such an edit included, is kept
\* unless the server's populated has the same key.
C20_MergesIntoCurrent ==
    [][last'.op = "then" =>
          /\ record'.params = last'.data.record.params
          /\ \A k \in DOMAIN record.populated :
                /\ k \in DOMAIN record'.populated
                /\ k \notin DOMAIN last'.data.record.populated =>
                      record'.populated[k] = record.populated[k]
                /\ k \in DOMAIN last'.data.record.populated =>
                      record'.populated[k] = last'.data.record.populated[k]]_vars

\* The create of an empty form has succeeded after a.b was set with a
\* sub-record while it was in flight: the params are the empty ones the server
\* echoed, the sub-record is still there
C20_EditDiscardedEntryKept ==
    /\ last.op = "then"
    /\ last.data.record.params = EmptyMap
    /\ last.data.record.populated = EmptyMap
    /\ record.id = Undefined
    /\ record.params = EmptyMap
    /\ record.populated = Only(PathAB, SubRecord("Q"))

====
